---- MODULE Spec2Model ----
(***************************************************************************)
(* A model of pyactionnetwork/api.py: class ActionNetworkApi.              *)
(*                                                                         *)
(* Python strings are sequences of chunks (a chunk is one character, or a  *)
(* literal piece of text such as "osdi:" that the code never splits), so   *)
(* that concatenation, str.format, list(str) and quote() are computed.     *)
(* None is the one-chunk sentinel None.  Time is counted in ticks,         *)
(* TicksPerPeriod ticks to the limiter's period of one second.             *)
(***************************************************************************)
EXTENDS Integers, Sequences, FiniteSets, TLC

VARIABLES
    config,         \* self.config: the root document's link table
    base_url,       \* self.base_url
    now,            \* the clock the limiter reads (ticks)
    last_reset,     \* RateLimitDecorator.last_reset of client()
    num_calls,      \* RateLimitDecorator.num_calls of client()
    sendTimes,      \* history: the time of every HTTP request client() sent
    op,             \* the public method that is running, or "idle"
    pc,             \* where that method is
    args,           \* the arguments it was called with
    resource,       \* get_resource_list / resource_to_url: resource
    filter,         \* get_resource_list: filter
    url,            \* local url
    url_no_filter,  \* local url_no_filter (Unbound until line 65 assigns it)
    data,           \* local data / resp / person: the parsed response
    resources,      \* get_resource_list: the accumulator
    tries,          \* backoff: tries of the running client() call
    req,            \* the arguments of the running client() call
    ret,            \* the line whose client() call is running
    log,            \* history: the requests the running method sent
    outcome         \* how the method ended: "return" or the exception raised

vars == <<config, base_url, now, last_reset, num_calls, sendTimes, op, pc,
          args, resource, filter, url, url_no_filter, data, resources, tries,
          req, ret, log, outcome>>

----------------------------------------------------------------------------
(* Bounds of the model *)

TicksPerSecond == 2
MaxTime == 5
MaxNumCalls == 13
MaxRequests == 3

(* Program constants *)

Calls == 4
Period == 1
MaxTries == 8

\* the limiter's period in ticks
TicksPerPeriod == Period * TicksPerSecond

----------------------------------------------------------------------------
(* Python values *)

None == <<"<None>">>
Unbound == <<"<unbound>">>
NoEmbedded == <<"<no _embedded>">>
NoNext == <<"<no next>">>
NoResponse == [error |-> None, embedded |-> NoEmbedded, next |-> NoNext]
NoRequest == [method |-> "", url |-> None, json |-> [none |-> TRUE]]
NoArgs == [none |-> TRUE]
NoJson == [none |-> TRUE]

\* bool(x) of a str, a list or None
Truthy(x) == x # None /\ x # <<>>

Min(a, b) == IF a < b THEN a ELSE b

\* 2 ** n
RECURSIVE Pow2(_)
Pow2(n) == IF n = 0 THEN 1 ELSE 2 * Pow2(n - 1)

\* urllib.parse.quote(s): unreserved characters and "/" are kept, every other
\* character is percent-encoded
QuoteChar(c) ==
    CASE c = " " -> "%20"
      [] c = "'" -> "%27"
      [] OTHER -> c

quote(s) == [i \in 1..Len(s) |-> QuoteChar(s[i])]

\* list(x): a str gives the list of its characters, a list gives a copy
PyList(x) ==
    IF x.t = "str" THEN [i \in 1..Len(x.v) |-> <<x.v[i]>>] ELSE x.v

PyStr(s) == [t |-> "str", v |-> s]
PyListOf(l) == [t |-> "list", v |-> l]

----------------------------------------------------------------------------
(* The config and resource_to_url *)

Hrefs == {<<"h1">>, <<"h2">>}
LinkKeys == {<<"people">>, <<"osdi:", "people">>, <<"osdi:", "events">>,
             <<"osdi:", "osdi:", "people">>}
ResourceNames == {<<"people">>, <<"events">>, <<"osdi:", "people">>, <<"lists">>}

\* a root document with a link table, and one without the '_links' key
Configs ==
    {[hasLinks |-> TRUE, links |-> l] :
        l \in UNION {[K -> Hrefs] : K \in SUBSET LinkKeys}}
    \cup {[hasLinks |-> FALSE, links |-> <<>>]}

\* "osdi:{0}".format(resource)
OsdiKey(r) == <<"osdi:">> \o r

\* self.config.get('_links', {}).keys()
LinkTableKeys(cfg) == IF cfg.hasLinks THEN DOMAIN cfg.links ELSE {}

\* resource_to_url without the fallback to the osdi: key
resource_to_url_NoFallback(cfg, r) ==
    IF r \in LinkTableKeys(cfg)
    THEN [raised |-> FALSE, href |-> cfg.links[r]]
    ELSE [raised |-> TRUE, href |-> None]

\* resource_to_url: [raised, href]
resource_to_url(cfg, r) ==
    IF r \in LinkTableKeys(cfg)
    THEN [raised |-> FALSE, href |-> cfg.links[r]]
    ELSE IF cfg.hasLinks /\ OsdiKey(r) \in DOMAIN cfg.links
         THEN [raised |-> FALSE, href |-> cfg.links[OsdiKey(r)]]
         ELSE [raised |-> TRUE, href |-> None]

----------------------------------------------------------------------------
(* The server: what a request may be answered with *)

Errors == {None, <<"e">>}
ItemLists == {<<>>, <<"a">>, <<"b", "a">>}
NextHrefs == {<<>>, <<"n">>}

\* a parsed response body: data.get('error'), data['_embedded']['osdi:...'],
\* data['_links']['next']['href']
ServerResponses ==
    [error : Errors,
     embedded : ItemLists \cup {NoEmbedded},
     next : NextHrefs \cup {NoNext}]

----------------------------------------------------------------------------
(* client(): @on_exception(expo, RateLimitException, max_tries=8)          *)
(*           @limits(calls=4, period=1)                                    *)

\* RateLimitDecorator.__period_remaining
PeriodRemaining == TicksPerPeriod - (now - last_reset)

\* an attempt resets the window when the period has elapsed
WindowExpired == PeriodRemaining <= 0

CallsAfterAttempt == (IF WindowExpired THEN 0 ELSE num_calls) + 1

ResetAfterAttempt == IF WindowExpired THEN now ELSE last_reset

\* the quota test written with >= for >: a fifth call goes through
Admitted_OffByOne == CallsAfterAttempt <= Calls + 1

\* the attempt goes through to requests.request
Admitted == CallsAfterAttempt <= Calls

\* backoff.expo: 1, 2, 4, ... seconds; full_jitter: uniform(0, value).
\* n is the number of attempts made before the refused one.
MaxWait(n) == Pow2(n) * TicksPerPeriod

\* a client() call may start: its attempts fit under the counter's bound and
\* its request fits in the log
MayCall ==
    /\ (IF WindowExpired THEN 0 ELSE num_calls) + MaxTries <= MaxNumCalls
    /\ Len(log) < MaxRequests

\* giving up one attempt early
LastTry_Early == tries + 1 >= MaxTries - 1

\* backoff: max_tries_exceeded = (tries == max_tries), after tries += 1
LastTry == tries + 1 = MaxTries

\* the request that requests.request sends, and its answer
Sent(r) ==
    [method |-> req.method, url |-> req.url, json |-> req.json,
     time |-> now, line |-> ret, resp |-> r]

\* an attempt the quota admits: the request is sent and the parsed response
\* returned to the caller
ClientSend ==
    /\ pc = "client"
    /\ Admitted
    /\ num_calls' = CallsAfterAttempt
    /\ last_reset' = ResetAfterAttempt
    /\ tries' = tries + 1
    /\ \E r \in ServerResponses, d \in 0..Min(1, MaxTime - now) :
          /\ log' = Append(log, Sent(r))
          /\ data' = r
          /\ now' = now + d
    /\ sendTimes' = Append(sendTimes, now)
    /\ pc' = ret
    /\ UNCHANGED <<config, base_url, op, args, resource, filter, url,
                   url_no_filter, resources, req, ret, outcome>>

\* an attempt the quota refuses, not the last: sleep a jittered backoff
ClientBackoff ==
    /\ pc = "client"
    /\ ~Admitted
    /\ ~LastTry
    /\ num_calls' = CallsAfterAttempt
    /\ last_reset' = ResetAfterAttempt
    /\ tries' = tries + 1
    /\ \E w \in 0..Min(MaxWait(tries), MaxTime - now) : now' = now + w
    /\ UNCHANGED <<config, base_url, sendTimes, op, pc, args, resource,
                   filter, url, url_no_filter, data, resources, req, ret,
                   log, outcome>>

\* the last attempt refused: RateLimitException reaches the caller
ClientGiveUp ==
    /\ pc = "client"
    /\ ~Admitted
    /\ LastTry
    /\ num_calls' = CallsAfterAttempt
    /\ last_reset' = ResetAfterAttempt
    /\ tries' = tries + 1
    /\ pc' = "done"
    /\ outcome' = "RateLimitException"
    /\ UNCHANGED <<config, base_url, now, sendTimes, op, args, resource,
                   filter, url, url_no_filter, data, resources, req, ret,
                   log>>

\* a caller calls self.client(method, url, json=json)
StartClient(method, u, json, back) ==
    /\ MayCall
    /\ req' = [method |-> method, url |-> u, json |-> json]
    /\ ret' = back
    /\ tries' = 0
    /\ pc' = "client"

\* client() called directly
CallClient ==
    /\ op = "idle"
    /\ op' = "client"
    /\ \E m \in {"GET", "POST"} : StartClient(m, <<"h1">>, NoJson, "L46")
    /\ UNCHANGED <<config, base_url, now, last_reset, num_calls, sendTimes,
                   args, resource, filter, url, url_no_filter, data,
                   resources, log, outcome>>

ClientReturn ==
    /\ pc = "L46"
    /\ pc' = "done"
    /\ outcome' = "return"
    /\ UNCHANGED <<config, base_url, now, last_reset, num_calls, sendTimes,
                   op, args, resource, filter, url, url_no_filter, data,
                   resources, tries, req, ret, log>>

\* the method has ended; the caller goes on
Finish ==
    /\ pc = "done"
    /\ op' = "idle"
    /\ pc' = "idle"
    /\ args' = NoArgs
    /\ resource' = None
    /\ filter' = None
    /\ url' = None
    /\ url_no_filter' = Unbound
    /\ data' = NoResponse
    /\ resources' = <<>>
    /\ tries' = 0
    /\ req' = NoRequest
    /\ ret' = ""
    /\ log' = <<>>
    /\ outcome' = "none"
    /\ UNCHANGED <<config, base_url, now, last_reset, num_calls, sendTimes>>

\* time passes between two calls
Tick ==
    /\ op = "idle"
    /\ now < MaxTime
    /\ now' = now + 1
    /\ UNCHANGED <<config, base_url, last_reset, num_calls, sendTimes, op,
                   pc, args, resource, filter, url, url_no_filter, data,
                   resources, tries, req, ret, log, outcome>>

----------------------------------------------------------------------------
(* Initial states *)

DefaultConfig == [hasLinks |-> TRUE,
                  links |-> (<<"people">> :> <<"h1">>)]

\* no method running
Idle ==
    /\ op = "idle"
    /\ pc = "idle"
    /\ args = NoArgs
    /\ resource = None
    /\ filter = None
    /\ url = None
    /\ url_no_filter = Unbound
    /\ data = NoResponse
    /\ resources = <<>>
    /\ tries = 0
    /\ req = NoRequest
    /\ ret = ""
    /\ log = <<>>
    /\ outcome = "none"

\* after __init__: the limiter was constructed when the class was defined
InitClient ==
    /\ config = DefaultConfig
    /\ base_url = <<"base/">>
    /\ now = 0
    /\ last_reset = 0
    /\ num_calls = 0
    /\ sendTimes = <<>>
    /\ Idle

NextClient ==
    \/ CallClient
    \/ ClientSend
    \/ ClientBackoff
    \/ ClientGiveUp
    \/ ClientReturn
    \/ Finish
    \/ Tick

SpecClient == InitClient /\ [][NextClient]_vars

----------------------------------------------------------------------------
(* get_resource_list *)

ListResources == {<<"people">>, <<"lists">>}
Filters == {None, <<>>, <<"a", " ", "'">>}
ListConfigs ==
    {DefaultConfig,
     [hasLinks |-> TRUE, links |-> (<<"osdi:", "people">> :> <<"h2">>)]}

\* f"{url_no_filter}?filter={quote(filter)}"
FilteredUrl(href, f) == href \o <<"?filter=">> \o quote(f)

\* lines 61-71 of one invocation get_resource_list(resource=res, url=u,
\* filter=f, resources=acc): the accumulator, the URL, and the first GET
Enter(res, u, f, acc) ==
    /\ resource' = res
    /\ filter' = f
    /\ resources' = IF Truthy(acc) THEN acc ELSE <<>>
    /\ IF Truthy(res) /\ ~Truthy(u)
       THEN LET r2u == resource_to_url(config, res) IN
            IF r2u.raised
            THEN /\ outcome' = "KeyError"
                 /\ pc' = "done"
                 /\ url' = u
                 /\ url_no_filter' = Unbound
                 /\ UNCHANGED <<req, ret, tries>>
            ELSE /\ url_no_filter' = r2u.href
                 /\ url' = IF Truthy(f) THEN FilteredUrl(r2u.href, f)
                                        ELSE r2u.href
                 /\ StartClient("GET", url', NoJson, "L71")
                 /\ UNCHANGED outcome
       ELSE /\ url_no_filter' = Unbound
            /\ url' = u
            /\ StartClient("GET", u, NoJson, "L71")
            /\ UNCHANGED outcome

\* get_resource_list(resource, filter=f) is called
CallGetResourceList ==
    /\ op = "idle"
    /\ op' = "get_resource_list"
    /\ \E r \in ListResources, f \in Filters :
          /\ args' = [resource |-> r, filter |-> f]
          /\ Enter(r, None, f, None)
    /\ UNCHANGED <<config, base_url, now, last_reset, num_calls, sendTimes,
                   data, log>>

\* the retry sent to the URL that failed
RetryUrl_Filtered == url

\* the URL of the retry of line 74
RetryUrl == url_no_filter

\* lines 72-74: the response has an error: print it and GET url_no_filter
GrlRetry ==
    /\ pc = "L71"
    /\ Truthy(data.error)
    /\ url_no_filter # Unbound
    /\ StartClient("GET", RetryUrl, NoJson, "L74")
    /\ UNCHANGED <<config, base_url, now, last_reset, num_calls, sendTimes,
                   op, args, resource, filter, url, url_no_filter, data,
                   resources, log, outcome>>

\* line 74 reads url_no_filter in an invocation that never assigned it
GrlUnbound ==
    /\ pc = "L71"
    /\ Truthy(data.error)
    /\ url_no_filter = Unbound
    /\ outcome' = "UnboundLocalError"
    /\ pc' = "done"
    /\ UNCHANGED <<config, base_url, now, last_reset, num_calls, sendTimes,
                   op, args, resource, filter, url, url_no_filter, data,
                   resources, tries, req, ret, log>>

\* control is at line 76 with the response in data: after the retry of line
\* 74, or after line 71 when the response has no error
AtLine76 == pc = "L74" \/ (pc = "L71" /\ ~Truthy(data.error))

\* a guard on the depth of the pagination
HasNext_MaxDepth(d) == d.next # NoNext /\ Len(log) < 2

\* line 78: data.get('_links', {}).get('next', None)
HasNext(d) == d.next # NoNext

\* the page's items put in front of the accumulated ones
Accumulate_Prepend(acc, d) == d.embedded \o acc

\* resources += [d for d in data['_embedded'][f'osdi:{resource}']]
Accumulate(acc, d) == acc \o d.embedded

\* line 76: the response has no embedded array
GrlKeyError ==
    /\ AtLine76
    /\ data.embedded = NoEmbedded
    /\ outcome' = "KeyError"
    /\ pc' = "done"
    /\ UNCHANGED <<config, base_url, now, last_reset, num_calls, sendTimes,
                   op, args, resource, filter, url, url_no_filter, data,
                   resources, tries, req, ret, log>>

\* lines 76-80: accumulate, then follow the next link
GrlRecurse ==
    /\ AtLine76
    /\ data.embedded # NoEmbedded
    /\ HasNext(data)
    /\ Enter(resource, data.next, None, Accumulate(resources, data))
    /\ UNCHANGED <<config, base_url, now, last_reset, num_calls, sendTimes,
                   op, args, data, log>>

\* lines 76-81: accumulate, no next link: return resources
GrlReturn ==
    /\ AtLine76
    /\ data.embedded # NoEmbedded
    /\ ~HasNext(data)
    /\ resources' = Accumulate(resources, data)
    /\ outcome' = "return"
    /\ pc' = "done"
    /\ UNCHANGED <<config, base_url, now, last_reset, num_calls, sendTimes,
                   op, args, resource, filter, url, url_no_filter, data,
                   tries, req, ret, log>>

\* the client has been in use: three calls went through in the running
\* window, which has one tick left
InUse ==
    /\ now = MaxTime - 1
    /\ last_reset = now - (TicksPerPeriod - 1)
    /\ num_calls = Calls - 1
    /\ sendTimes = <<last_reset, last_reset, last_reset>>

InitList ==
    /\ config \in ListConfigs
    /\ base_url = <<"base/">>
    /\ InUse
    /\ Idle

NextList ==
    \/ CallGetResourceList
    \/ ClientSend
    \/ ClientBackoff
    \/ ClientGiveUp
    \/ GrlRetry
    \/ GrlUnbound
    \/ GrlKeyError
    \/ GrlRecurse
    \/ GrlReturn
    \/ Finish

SpecList == InitList /\ [][NextList]_vars

----------------------------------------------------------------------------
(* create_person and update_person *)

Emails == {None, <<"a@example.com">>}
GivenNames == {<<>>, <<"A">>}
Addresses == {PyListOf(<<>>), PyStr(<<"x">>), PyStr(<<"x", "y">>),
              PyListOf(<< <<"x", "y">>, <<"z">> >>)}
Tags == {PyListOf(<<>>), PyStr(<<"t", "u">>), PyListOf(<< <<"t", "u">> >>)}
CustomFields == {{}, {<<"k", "v">>}}
PersonIds == {None, <<"id1">>}

PersonArgs ==
    [person_id : PersonIds, email : Emails, given_name : GivenNames,
     family_name : {<<"F">>}, address : Addresses, city : {<<"c">>},
     state : {<<"s">>}, country : {<<"GB">>}, postal_code : {<<"p">>},
     tags : Tags, custom_fields : CustomFields]

\* "{0}".format(x)
Format(x) == IF x = None THEN <<"None">> ELSE x

\* lines 152-158, 213-219
PostalAddresses(a) ==
    << [address_lines |-> PyList(a.address),
        locality |-> a.city,
        region |-> a.state,
        country |-> a.country,
        postal_code |-> a.postal_code] >>

\* the given name sent as the address
EmailAddresses_GivenName(a) == << [address |-> a.given_name] >>

\* lines 159-161, 220-222
EmailAddresses(a) == << [address |-> a.email] >>

\* lines 148-165
CreatePayload(a) ==
    [person |-> [family_name |-> a.family_name,
                 given_name |-> a.given_name,
                 postal_addresses |-> PostalAddresses(a),
                 email_addresses |-> EmailAddresses(a),
                 custom_fields |-> a.custom_fields],
     add_tags |-> PyList(a.tags)]

\* lines 210-225
UpdatePayload(a) ==
    [family_name |-> a.family_name,
     given_name |-> a.given_name,
     postal_addresses |-> PostalAddresses(a),
     email_addresses |-> EmailAddresses(a),
     add_tags |-> PyList(a.tags),
     custom_fields |-> a.custom_fields]

\* "{0}people/".format(self.base_url)
CreateUrl == base_url \o <<"people/">>

\* "{0}people/{1}".format(self.base_url, person_id)
UpdateUrl(id) == base_url \o <<"people/">> \o Format(id)

\* create_person(...) is called: lines 147-167
CallCreatePerson ==
    /\ op = "idle"
    /\ op' = "create_person"
    /\ \E a \in PersonArgs :
          /\ a.person_id = None
          /\ args' = a
          /\ url' = CreateUrl
          /\ StartClient("POST", url', CreatePayload(a), "L167")
    /\ UNCHANGED <<config, base_url, now, last_reset, num_calls, sendTimes,
                   resource, filter, url_no_filter, data, resources, log,
                   outcome>>

\* line 168: return resp
CreateReturn ==
    /\ pc = "L167"
    /\ outcome' = "return"
    /\ pc' = "done"
    /\ UNCHANGED <<config, base_url, now, last_reset, num_calls, sendTimes,
                   op, args, resource, filter, url, url_no_filter, data,
                   resources, tries, req, ret, log>>

\* update_person(...) is called: lines 209-227
CallUpdatePerson ==
    /\ op = "idle"
    /\ op' = "update_person"
    /\ \E a \in PersonArgs :
          /\ args' = a
          /\ url' = UpdateUrl(a.person_id)
          /\ StartClient("PUT", url', UpdatePayload(a), "L227")
    /\ UNCHANGED <<config, base_url, now, last_reset, num_calls, sendTimes,
                   resource, filter, url_no_filter, data, resources, log,
                   outcome>>

\* line 228 as return resp
JsonOfParsed_Returned == "return"

\* what line 228, return resp.json(), ends with: resp is the value client()
\* parsed from the response body, and no such value has a json attribute
JsonOfParsed == "AttributeError"

\* line 228
UpdateReturn ==
    /\ pc = "L227"
    /\ outcome' = JsonOfParsed
    /\ pc' = "done"
    /\ UNCHANGED <<config, base_url, now, last_reset, num_calls, sendTimes,
                   op, args, resource, filter, url, url_no_filter, data,
                   resources, tries, req, ret, log>>

InitPerson ==
    /\ config = DefaultConfig
    /\ base_url = <<"base/">>
    /\ InUse
    /\ Idle

NextPerson ==
    \/ CallCreatePerson
    \/ CallUpdatePerson
    \/ ClientSend
    \/ ClientBackoff
    \/ ClientGiveUp
    \/ CreateReturn
    \/ UpdateReturn
    \/ Finish

SpecPerson == InitPerson /\ [][NextPerson]_vars

----------------------------------------------------------------------------
(* resource_to_url called on its own, and refresh_config *)

\* resource_to_url(resource) is called
CallResourceToUrl ==
    /\ op = "idle"
    /\ op' = "resource_to_url"
    /\ \E r \in ResourceNames :
          /\ resource' = r
          /\ LET r2u == resource_to_url(config, r) IN
                /\ url' = r2u.href
                /\ outcome' = IF r2u.raised THEN "KeyError" ELSE "return"
    /\ pc' = "done"
    /\ UNCHANGED <<config, base_url, now, last_reset, num_calls, sendTimes,
                   args, filter, url_no_filter, data, resources, tries, req,
                   ret, log>>

\* refresh_config(): self.config is replaced by the root document served now
\* (requests.get, not client())
refresh_config ==
    /\ op = "idle"
    /\ config' \in Configs
    /\ UNCHANGED <<base_url, now, last_reset, num_calls, sendTimes, op, pc,
                   args, resource, filter, url, url_no_filter, data,
                   resources, tries, req, ret, log, outcome>>

InitResolve ==
    /\ config \in Configs
    /\ base_url = <<"base/">>
    /\ now = 0
    /\ last_reset = 0
    /\ num_calls = 0
    /\ sendTimes = <<>>
    /\ Idle

NextResolve ==
    \/ CallResourceToUrl
    \/ refresh_config
    \/ Finish

SpecResolve == InitResolve /\ [][NextResolve]_vars

----------------------------------------------------------------------------
(* Claims about client() *)

\* the requests sent at a time in [t, t + TicksPerPeriod)
SentWithin(t) ==
    {i \in DOMAIN sendTimes :
        t <= sendTimes[i] /\ sendTimes[i] < t + TicksPerPeriod}

\* the requests sent since the limiter's window was last reset
SentInWindow == {i \in DOMAIN sendTimes : sendTimes[i] >= last_reset}

C4_DelayedNotDropped ==
    /\ (op = "client" /\ pc = "done" /\ tries > 1) =>
          (outcome = "return" /\ Len(log) = 1)
    /\ tries <= MaxTries
    /\ op = "client" => Len(log) <= 1
    /\ outcome = "RateLimitException" => tries = MaxTries

\* C4 amended: a call the quota refused is re-attempted after each backoff
\* wait and then either sends its one request and returns that response, or,
\* when all 8 attempts were refused, raises the rate-limit failure without
\* having sent anything.  Every call makes at most 8 attempts and sends at
\* most one request; a call that sent its request made no attempt after it.
C4_DelayedOrRaised ==
    /\ tries <= MaxTries
    /\ op = "client" => Len(log) <= 1
    /\ (op = "client" /\ pc = "client") => log = <<>>
    /\ (op = "client" /\ outcome = "return") =>
          /\ Len(log) = 1
          /\ data = log[1].resp
          /\ log[1].method = req.method /\ log[1].url = req.url
    /\ (op = "client" /\ outcome = "RateLimitException") =>
          /\ tries = MaxTries
          /\ log = <<>>
          /\ num_calls >= Calls + MaxTries
    /\ (op = "client" /\ pc = "done") =>
          outcome \in {"return", "RateLimitException"}

\* C4 witness: a fifth call in the window was refused, waited, and sent its
\* request once the window was reset.
C4_Witness ==
    /\ op = "client" /\ pc = "done" /\ outcome = "return"
    /\ tries > 1
    /\ Len(log) = 1
    /\ Len(sendTimes) >= Calls + 1

----------------------------------------------------------------------------
(* Claims about get_resource_list *)

Listing == op = "get_resource_list"

\* the unfiltered URL of the resource that is listed
UnfilteredUrl == resource_to_url(config, resource).href

\* the responses the fetch has received are all free of an error field
NoErrorServed == \A i \in DOMAIN log : ~Truthy(log[i].resp.error)

\* items(P1) ++ ... ++ items(Pk) of the first k responses
RECURSIVE ItemsOfPages(_)
ItemsOfPages(k) ==
    IF k = 0 THEN <<>> ELSE ItemsOfPages(k - 1) \o log[k].resp.embedded

RECURSIVE CountOfPages(_)
CountOfPages(k) ==
    IF k = 0 THEN 0 ELSE CountOfPages(k - 1) + Len(log[k].resp.embedded)

\* C1: when the pages served are free of errors, get_resource_list returns
\* the concatenation of the pages' embedded arrays, in page order and then
\* in-page order, nothing dropped, duplicated or de-duplicated; its length is
\* the sum of the page counts.
C1_Concatenation ==
    (Listing /\ outcome = "return" /\ NoErrorServed) =>
        /\ resources = ItemsOfPages(Len(log))
        /\ Len(resources) = CountOfPages(Len(log))
        /\ \A i \in DOMAIN log : log[i].line = "L71" /\ log[i].method = "GET"

\* C1 witness: three pages, the first empty, the others sharing the item "a".
C1_Witness ==
    /\ Listing /\ outcome = "return" /\ NoErrorServed
    /\ Len(log) = 3
    /\ log[1].resp.embedded = <<>>
    /\ log[2].resp.embedded = <<"a">>
    /\ log[3].resp.embedded = <<"b", "a">>
    /\ resources = <<"a", "b", "a">>

\* the first GET was filtered and its response has an error field
FilteredFirstFailed ==
    /\ Listing
    /\ Truthy(args.filter)
    /\ Len(log) >= 1
    /\ Truthy(log[1].resp.error)

\* C2: after a filtered first GET whose response has an error field, the
\* fetcher calls client() once more for that page: the GET that follows is the
\* retry of line 74, to the unfiltered URL of the resource, its response
\* replaces the failed one, and the request after the retry is never another
\* retry, whatever the retry's response holds.
C2_OneUnfilteredRetry ==
    FilteredFirstFailed =>
        /\ Len(log) >= 2 =>
              /\ log[2].line = "L74"
              /\ log[2].method = "GET"
              /\ log[2].url = UnfilteredUrl
              /\ \A i \in DOMAIN log[2].url : log[2].url[i] # "?filter="
        /\ Len(log) >= 3 => log[3].line = "L71"
        /\ (Len(log) = 1 /\ pc = "client") => (req.url = UnfilteredUrl /\ ret = "L74")
        /\ (Len(log) = 2 /\ pc = "L74") => data = log[2].resp
        /\ (Len(log) = 2 /\ outcome = "return") => resources = log[2].resp.embedded
        /\ (pc = "done" /\ outcome # "RateLimitException") => Len(log) >= 2

\* C2 witness: the retry's response has an error field again, and the fetch
\* went on from it to the next page without a second retry.
C2_Witness ==
    /\ FilteredFirstFailed
    /\ Len(log) = 3
    /\ Truthy(log[2].resp.error)
    /\ log[3].line = "L71"

\* the URL-escaped form of the filters of the model
Escaped == (<<"a", " ", "'">> :> <<"a", "%20", "%27">>)

C10_EveryPageRetried ==
    Listing =>
        \A i \in DOMAIN log :
            (log[i].line = "L71" /\ Truthy(log[i].resp.error)) =>
                \/ i = Len(log) /\ pc \in {"L71", "client"}
                \/ i = Len(log) /\ outcome = "RateLimitException"
                \/ /\ i < Len(log)
                   /\ log[i + 1].line = "L74"
                   /\ log[i + 1].url = UnfilteredUrl

----------------------------------------------------------------------------
(* Claims about create_person and update_person *)

\* the JSON body client() was called with
Body == req.json

\* C6: create_person(email=e, given_name=g) sends one POST to base_url +
\* 'people/' whose body has a person object with email_addresses ==
\* [{'address': e}], given_name == g, family_name, exactly one
\* postal_addresses entry and custom_fields, and add_tags beside person; it
\* returns the parsed response of that POST.
C6_CreatePayload ==
    op = "create_person" =>
        /\ req.method = "POST"
        /\ req.url = base_url \o <<"people/">>
        /\ DOMAIN Body = {"person", "add_tags"}
        /\ DOMAIN Body.person = {"family_name", "given_name", "postal_addresses",
                                 "email_addresses", "custom_fields"}
        /\ Body.person.email_addresses = << [address |-> args.email] >>
        /\ Body.person.given_name = args.given_name
        /\ Body.person.family_name = args.family_name
        /\ Len(Body.person.postal_addresses) = 1
        /\ Body.person.custom_fields = args.custom_fields
        /\ Len(log) <= 1
        /\ \A i \in DOMAIN log :
              /\ log[i].method = req.method
              /\ log[i].url = req.url
              /\ log[i].json = Body
        /\ outcome = "return" => (Len(log) = 1 /\ data = log[1].resp)
        /\ pc = "done" => outcome \in {"return", "RateLimitException"}

\* C6 witness: create_person(email="a@example.com", given_name="A") returned.
C6_Witness ==
    /\ op = "create_person" /\ outcome = "return"
    /\ args.email = <<"a@example.com">> /\ args.given_name = <<"A">>
    /\ log[1].json.person.email_addresses = << [address |-> <<"a@example.com">>] >>
    /\ log[1].json.person.given_name = <<"A">>

\* the postal address and the tags of the body, in either payload shape
BodyAddressLines ==
    IF op = "create_person"
    THEN Body.person.postal_addresses[1].address_lines
    ELSE Body.postal_addresses[1].address_lines

\* what a str or list argument is documented to become
OneOrMany(x) == IF x.t = "str" THEN << x.v >> ELSE x.v

\* C7 as stated: an address given as a single string s becomes address_lines
\* == [s], an address given as a list is kept element for element, and tags
\* given as a single string t become add_tags == [t].
C7_StringIsOneLine ==
    op \in {"create_person", "update_person"} =>
        /\ BodyAddressLines = OneOrMany(args.address)
        /\ Body.add_tags = OneOrMany(args.tags)

\* C8: update_person(person_id=i, ...) sends one PUT to base_url + 'people/'
\* + i through client() and then, whatever the response, fails on
\* resp.json() instead of returning: it never returns a value, and the
\* AttributeError is raised only after the PUT has been sent.
C8_UpdateFailsAfterPut ==
    op = "update_person" =>
        /\ req.method = "PUT"
        /\ args.person_id # None =>
              req.url = base_url \o <<"people/">> \o args.person_id
        /\ Len(log) <= 1
        /\ \A i \in DOMAIN log :
              /\ log[i].method = "PUT"
              /\ log[i].url = req.url
              /\ log[i].json = Body
              /\ log[i].line = "L227"
        /\ outcome # "return"
        /\ outcome = "AttributeError" => Len(log) = 1
        /\ (pc = "done" /\ Len(log) = 1) => outcome = "AttributeError"
        /\ pc = "done" => outcome \in {"AttributeError", "RateLimitException"}

\* C8 witness: the PUT to people/id1 was sent and answered without an error
\* field, and update_person ended with the AttributeError.
C8_Witness ==
    /\ op = "update_person" /\ pc = "done"
    /\ outcome = "AttributeError"
    /\ Len(log) = 1
    /\ log[1].url = base_url \o <<"people/", "id1">>
    /\ ~Truthy(log[1].resp.error)

----------------------------------------------------------------------------
(* Claims about resource_to_url *)

\* C5: resource_to_url(n) returns L[n].href when n is a key of the link table
\* L; otherwise L['osdi:' + n].href when that key is in L; otherwise, also when
\* the config has no link table, it raises the unknown-resource KeyError and
\* returns nothing.
C5_ResourceToUrl ==
    (op = "resource_to_url" /\ pc = "done") =>
        IF config.hasLinks /\ resource \in DOMAIN config.links
        THEN outcome = "return" /\ url = config.links[resource]
        ELSE IF config.hasLinks /\ (<<"osdi:">> \o resource) \in DOMAIN config.links
             THEN /\ outcome = "return"
                  /\ url = config.links[<<"osdi:">> \o resource]
             ELSE outcome = "KeyError" /\ url = None

\* C5 witness: the name is only under its osdi: key and resolves to its href.
C5_Witness ==
    /\ op = "resource_to_url" /\ pc = "done"
    /\ config.hasLinks
    /\ resource = <<"events">>
    /\ DOMAIN config.links = {<<"osdi:", "events">>}
    /\ outcome = "return"
    /\ url = config.links[<<"osdi:", "events">>]

====
